---- MODULE Spec2Model ----
(***************************************************************************)
(* Versioned document store: the file access layer (file_ops.rs) and the   *)
(* repository layer (git_ops.rs) acting on one project root.               *)
(*                                                                         *)
(* Paths are written relative to the project root as sequences of names.   *)
(* The repository metadata directory is not one of the project paths; it   *)
(* is the variables initialized, head, index and odb.                      *)
(***************************************************************************)
EXTENDS Integers, Sequences, FiniteSets, TLC

\* Bounds of the model.
MaxCommits == 2
MaxCount == 2

\* ------------------------------------------------------------------------
\* The working tree
\* ------------------------------------------------------------------------
F == <<"f">>
D == <<"d">>
G == <<"d", "g">>
Paths == {F, D, G}
Root == <<>>

NONE == "none"
DIR == "dir"
Contents == {"v1", "v2"}

\* Inputs of the file operations.
WriteInputs == {<<F, "v1">>, <<F, "v2">>, <<G, "v1">>}
MkdirInputs == {D}
ListInputs == {Root, D, F}
Messages == {"m1"}
Names == {"", "ann"}
Emails == {"", "a@x"}

VARIABLES
    fs,           \* working tree: path -> NONE, DIR or the content of a file
    initialized,  \* the root holds repository metadata
    head,         \* <<>> while the branch is unborn, else <<oid>>
    index,        \* the on-disk index: path -> NONE or staged content
    odb,          \* object database: oid -> commit object
    ret,          \* the last operation, its arguments and its result
    made,         \* history: what each successful commitAll saw and stored, oldest first
    was,          \* history: the working tree before the last operation
    pc,           \* concurrent commitAll calls: where each call is in git_commit
    loc,          \* concurrent commitAll calls: the locals of each call
    serial,       \* the host runs at most one operation on the root at a time
    health        \* wait_for_backend_health: its arguments, locals and position

vars == <<fs, initialized, head, index, odb, ret, made, was, pc, loc, serial, health>>

\* The calls of commitAll that may be in flight together.
Procs == {1, 2}
ProcMessage == <<"m1", "m2">>
IdleLoc == [idx |-> [p \in {} |-> NONE], wt |-> [p \in {} |-> NONE],
            tree |-> [p \in {} |-> NONE], parents |-> <<>>, foreign |-> FALSE]
HealthIdle == [pc |-> "idle", max |-> 0, init |-> 0, delay |-> 0, attempt |-> 0,
               conn |-> <<>>, slept |-> <<>>, result |-> FALSE]

Parent(p) == SubSeq(p, 1, Len(p) - 1)
IsPrefix(p, q) == Len(p) <= Len(q) /\ SubSeq(q, 1, Len(p)) = p
Under(p, q) == Len(p) < Len(q) /\ IsPrefix(p, q)

NodeAt(t, p) == IF p = Root THEN DIR ELSE t[p]
IsDir(t, p) == NodeAt(t, p) = DIR
IsFile(t, p) == NodeAt(t, p) \in Contents
Exists(t, p) == NodeAt(t, p) # NONE

\* Every proper ancestor of p, the root excluded.
Ancestors(p) == {q \in Paths : Under(q, p)}

Ok(v) == [ok |-> TRUE, val |-> v, err |-> ""]
Err(e) == [ok |-> FALSE, val |-> "", err |-> e]

\* fs::create_dir_all(p): the tree afterwards, or the tree unchanged when
\* p or one of its ancestors is a regular file.
CanCreateDirAll(t, p) ==
    /\ \A q \in Ancestors(p) : ~IsFile(t, q)
    /\ ~IsFile(t, p)
create_dir_all(t, p) ==
    [q \in Paths |-> IF IsPrefix(q, p) THEN DIR ELSE t[q]]

\* fs::write(p, c): needs the parent directory, and p not a directory.
CanWrite(t, p) == IsDir(t, Parent(p)) /\ ~IsDir(t, p)
fs_write(t, p, c) == [t EXCEPT ![p] = c]

\* Mutation of remove_dir_all: only the directory entry itself is removed.
remove_dir_only(t, p) == [t EXCEPT ![p] = NONE]

\* fs::remove_dir_all(p) / fs::remove_file(p)
remove_dir_all(t, p) == [q \in Paths |-> IF IsPrefix(p, q) THEN NONE ELSE t[q]]
remove_file(t, p) == [t EXCEPT ![p] = NONE]

\* fs::read_to_string
read_file_content(t, p) ==
    IF IsFile(t, p) THEN Ok(t[p]) ELSE Err("Failed to read file")

file_exists(t, p) == Exists(t, p)

\* The regular files of a working tree, as path -> content or NONE.
FilesOf(t) == [p \in Paths |-> IF IsFile(t, p) THEN t[p] ELSE NONE]
EmptyTree == [p \in Paths |-> NONE]

\* ------------------------------------------------------------------------
\* The object database
\* ------------------------------------------------------------------------
\* A commit object. Object ids are content hashes: two objects have the
\* same id exactly when they have the same content.
CommitObj(tree, parents, message, author) ==
    [tree |-> tree, parents |-> parents, message |-> message, author |-> author]
OidOf(obj) == [hex |-> TRUE, sha |-> obj]

\* Commit ids as the host passes them: the ids of stored objects, one
\* well-formed id of no object, and one string that is no hex id.
NoObject == CommitObj([p \in Paths |-> NONE], <<>>, "", "")
UnknownId == [hex |-> TRUE, sha |-> NoObject]
BadId == [hex |-> FALSE, sha |-> NoObject]
RestoreInputs == (Paths \X DOMAIN odb) \cup ({F} \X {UnknownId, BadId})

\* Tree::get_path: the kind of entry at p in a tree ("blob", "tree" or NONE).
get_path(tree, p) ==
    IF tree[p] # NONE THEN "blob"
    ELSE IF \E q \in Paths : Under(p, q) /\ tree[q] # NONE THEN "tree"
    ELSE NONE

\* ------------------------------------------------------------------------
\* Initial state: an existing, empty project directory without metadata.
\* ------------------------------------------------------------------------
InitStore ==
    /\ fs = [p \in Paths |-> NONE]
    /\ initialized = FALSE
    /\ head = <<>>
    /\ index = EmptyTree
    /\ odb = <<>>
    /\ ret = [op |-> "none", path |-> Root, arg |-> "", res |-> Ok("")]
    /\ made = <<>>
    /\ was = [p \in Paths |-> NONE]
    /\ pc = [p \in Procs |-> "idle"]
    /\ loc = [p \in Procs |-> IdleLoc]

Init ==
    /\ InitStore
    /\ serial = TRUE
    /\ health = HealthIdle

\* A command invoked by the host returns; no other call is in flight.
Return(op, path, arg, res) ==
    /\ ret' = [op |-> op, path |-> path, arg |-> arg, res |-> res]
    /\ was' = fs
    /\ UNCHANGED <<pc, loc, serial, health>>

\* ------------------------------------------------------------------------
\* File access layer
\* ------------------------------------------------------------------------
\* Mutation of write_file_content: the parent directory is not created.
write_file_content_no_mkdir(p, c) ==
    /\ IF CanWrite(fs, p)
         THEN /\ fs' = fs_write(fs, p, c)
              /\ Return("writeFile", p, c, Ok(""))
         ELSE /\ fs' = fs
              /\ Return("writeFile", p, c, Err("Failed to write file"))
    /\ UNCHANGED <<initialized, head, index, odb, made>>

write_file_content(p, c) ==
    /\ IF ~CanCreateDirAll(fs, Parent(p))
         THEN /\ fs' = fs
              /\ Return("writeFile", p, c, Err("Failed to create directory"))
         ELSE LET t == create_dir_all(fs, Parent(p))
              IN  IF CanWrite(t, p)
                    THEN /\ fs' = fs_write(t, p, c)
                         /\ Return("writeFile", p, c, Ok(""))
                    ELSE /\ fs' = t
                         /\ Return("writeFile", p, c, Err("Failed to write file"))
    /\ UNCHANGED <<initialized, head, index, odb, made>>

create_directory(p) ==
    /\ IF CanCreateDirAll(fs, p)
         THEN /\ fs' = create_dir_all(fs, p)
              /\ Return("createDirectory", p, "", Ok(""))
         ELSE /\ fs' = fs
              /\ Return("createDirectory", p, "", Err("Failed to create directory"))
    /\ UNCHANGED <<initialized, head, index, odb, made>>

delete_file(p) ==
    /\ IF IsDir(fs, p)
         THEN /\ fs' = remove_dir_all(fs, p)
              /\ Return("deleteFile", p, "", Ok(""))
         ELSE IF IsFile(fs, p)
           THEN /\ fs' = remove_file(fs, p)
                /\ Return("deleteFile", p, "", Ok(""))
           ELSE /\ fs' = fs
                /\ Return("deleteFile", p, "", Err("Failed to delete file"))
    /\ UNCHANGED <<initialized, head, index, odb, made>>

readFile(p) ==
    /\ Return("readFile", p, "", read_file_content(fs, p))
    /\ UNCHANGED <<fs, initialized, head, index, odb, made>>

pathExists(p) ==
    /\ Return("pathExists", p, "", Ok(file_exists(fs, p)))
    /\ UNCHANGED <<fs, initialized, head, index, odb, made>>

\* A FileInfo of list_directory: size only for regular files.
FileInfo(t, q) ==
    [name |-> q[Len(q)], path |-> q, is_directory |-> IsDir(t, q),
     size |-> IF IsFile(t, q) THEN <<Len(t[q])>> ELSE <<>>]

\* Mutation of list_entries: the walk is not limited to depth 1.
list_entries_all_depths(t, p) ==
    IF IsDir(t, p) THEN {FileInfo(t, q) : q \in {r \in Paths : Under(p, r) /\ Exists(t, r)}}
    ELSE {}

\* WalkDir::new(path).max_depth(1) with the entries that are errors dropped
\* and the entry of path itself skipped: the children of a directory, and
\* nothing for a regular file or for a path that does not exist. The order
\* of the entries is the order of enumeration, which the set leaves open.
list_entries(t, p) ==
    IF IsDir(t, p) THEN {FileInfo(t, q) : q \in {r \in Paths : Parent(r) = p /\ Exists(t, r)}}
    ELSE {}

list_directory(p) ==
    /\ Return("listDirectory", p, "", Ok(list_entries(fs, p)))
    /\ UNCHANGED <<fs, initialized, head, index, odb, made>>

\* ------------------------------------------------------------------------
\* Repository layer
\* ------------------------------------------------------------------------
\* Mutation of init_git_repo: re-initialising points head at an unborn branch.
init_git_repo_reset ==
    /\ initialized' = TRUE
    /\ head' = <<>>
    /\ index' = IF initialized THEN index ELSE EmptyTree
    /\ odb' = IF initialized THEN odb ELSE <<>>
    /\ Return("initRepository", Root, "", Ok(""))
    /\ UNCHANGED <<fs, made>>

\* Repository::init: creates the metadata when absent; an existing head
\* reference, index and object database are kept.
init_git_repo ==
    /\ initialized' = TRUE
    /\ head' = IF initialized THEN head ELSE <<>>
    /\ index' = IF initialized THEN index ELSE EmptyTree
    /\ odb' = IF initialized THEN odb ELSE <<>>
    /\ Return("initRepository", Root, "", Ok(""))
    /\ UNCHANGED <<fs, made>>

\* Signature::now rejects an empty name or email.
SignatureOk(name, email) == name # "" /\ email # ""

\* Mutation of add_all: entries of files that are gone stay in the index.
add_all_keep_deleted(idx, t) ==
    [p \in Paths |-> IF IsFile(t, p) THEN t[p] ELSE idx[p]]

\* Index::add_all(["*"], DEFAULT): every difference between the index and
\* the working tree is applied to the index; a file found in the working
\* tree is added or updated, an entry whose file is gone is removed.
\* With DEFAULT an untracked file matched by an ignore rule is skipped; no
\* path of this model matches one.
add_all(idx, t) ==
    [p \in Paths |->
        IF IsFile(t, p) THEN t[p]
        ELSE IF idx[p] # NONE THEN NONE
        ELSE idx[p]]

\* Index::write_tree: the tree object holds exactly the index entries.
write_tree(idx) == idx

\* Mutation of NewCommit: the commit is created without a parent.
NewCommitNoParent(tree, hd, message, name) == CommitObj(tree, <<>>, message, name)

\* git_commit: lines 37-54, the commit object built on the current head.
NewCommit(tree, hd, message, name) == CommitObj(tree, hd, message, name)

\* Mutation of git_commit: the index is staged and written before the
\* signature is built.
git_commit_stage_first(message, name, email) ==
    IF ~initialized
      THEN /\ Return("commitAll", Root, <<message, name, email>>,
                     Err("Failed to open repository"))
           /\ UNCHANGED <<fs, initialized, head, index, odb, made>>
    ELSE IF ~SignatureOk(name, email)
      THEN /\ index' = add_all(index, fs)
           /\ Return("commitAll", Root, <<message, name, email>>,
                     Err("Failed to create signature"))
           /\ UNCHANGED <<fs, initialized, head, odb, made>>
    ELSE LET idx == add_all(index, fs)
             obj == NewCommit(write_tree(idx), head, message, name)
             oid == OidOf(obj)
         IN  /\ Cardinality(DOMAIN odb) < MaxCommits
             /\ index' = idx
             /\ odb' = (oid :> obj) @@ odb
             /\ head' = <<oid>>
             /\ made' = Append(made, [oid |-> oid, obj |-> obj, wt |-> FilesOf(fs),
                                       prev |-> head, idx |-> index])
             /\ Return("commitAll", Root, <<message, name, email>>, Ok(oid))
             /\ UNCHANGED <<fs, initialized>>

\* Mutation of git_commit: no commit is created when the staged tree is
\* the tree of the head commit; the id of head is returned.
git_commit_skip_unchanged(message, name, email) ==
    IF ~initialized
      THEN /\ Return("commitAll", Root, <<message, name, email>>,
                     Err("Failed to open repository"))
           /\ UNCHANGED <<fs, initialized, head, index, odb, made>>
    ELSE IF ~SignatureOk(name, email)
      THEN /\ Return("commitAll", Root, <<message, name, email>>,
                     Err("Failed to create signature"))
           /\ UNCHANGED <<fs, initialized, head, index, odb, made>>
    ELSE LET idx == add_all(index, fs)
             obj == NewCommit(write_tree(idx), head, message, name)
             oid == OidOf(obj)
         IN  IF head # <<>> /\ odb[head[1]].tree = write_tree(idx)
               THEN /\ index' = idx
                    /\ Return("commitAll", Root, <<message, name, email>>, Ok(head[1]))
                    /\ UNCHANGED <<fs, initialized, head, odb, made>>
               ELSE /\ Cardinality(DOMAIN odb) < MaxCommits
                    /\ index' = idx
                    /\ odb' = (oid :> obj) @@ odb
                    /\ head' = <<oid>>
                    /\ made' = Append(made, [oid |-> oid, obj |-> obj,
                                              wt |-> FilesOf(fs),
                                              prev |-> head, idx |-> index])
                    /\ Return("commitAll", Root, <<message, name, email>>, Ok(oid))
                    /\ UNCHANGED <<fs, initialized>>

git_commit(message, name, email) ==
    IF ~initialized
      THEN /\ Return("commitAll", Root, <<message, name, email>>,
                     Err("Failed to open repository"))
           /\ UNCHANGED <<fs, initialized, head, index, odb, made>>
    ELSE IF ~SignatureOk(name, email)
      THEN /\ Return("commitAll", Root, <<message, name, email>>,
                     Err("Failed to create signature"))
           /\ UNCHANGED <<fs, initialized, head, index, odb, made>>
    ELSE LET idx == add_all(index, fs)
             obj == NewCommit(write_tree(idx), head, message, name)
             oid == OidOf(obj)
         IN  /\ Cardinality(DOMAIN odb) < MaxCommits
             /\ index' = idx
             /\ odb' = (oid :> obj) @@ odb
             /\ head' = <<oid>>
             /\ made' = Append(made, [oid |-> oid, obj |-> obj, wt |-> FilesOf(fs),
                                       prev |-> head, idx |-> index])
             /\ Return("commitAll", Root, <<message, name, email>>, Ok(oid))
             /\ UNCHANGED <<fs, initialized>>

\* Revwalk from a starting reference, following parents.
RECURSIVE revwalk(_, _)
revwalk(db, start) ==
    IF start = <<>> THEN <<>>
    ELSE <<start[1]>> \o revwalk(db, db[start[1]].parents)

CommitInfo(db, oid) ==
    [id |-> oid, message |-> db[oid].message, author |-> db[oid].author]

Min(a, b) == IF a < b THEN a ELSE b

\* Mutation of LogRecords: the walk stops one commit late (i > max_count).
LogRecordsOneMore(db, hd, max_count) ==
    LET walk == revwalk(db, hd)
    IN  [i \in 1..Min(max_count + 1, Len(walk)) |-> CommitInfo(db, walk[i])]

\* git_log: the first max_count commits of the walk from head.
LogRecords(db, hd, max_count) ==
    LET walk == revwalk(db, hd)
    IN  [i \in 1..Min(max_count, Len(walk)) |-> CommitInfo(db, walk[i])]

\* Mutation of git_log_result: an unborn head yields an empty walk.
git_log_result_unborn_empty(init, db, hd, max_count) ==
    IF ~init THEN Err("Failed to open repository")
    ELSE Ok(LogRecords(db, hd, max_count))

git_log_result(init, db, hd, max_count) ==
    IF ~init THEN Err("Failed to open repository")
    ELSE IF hd = <<>> THEN Err("Failed to push head")
    ELSE Ok(LogRecords(db, hd, max_count))

git_log(max_count) ==
    /\ Return("log", Root, max_count, git_log_result(initialized, odb, head, max_count))
    /\ UNCHANGED <<fs, initialized, head, index, odb, made>>

\* The tree of the head commit; nothing is tracked while head is unborn.
HeadTree(db, hd) == IF hd = <<>> THEN EmptyTree ELSE db[hd[1]].tree

\* Paths in the order in which status lists them (sorted by path).
PathOrder == <<D, G, F>>

\* Mutation of status_paths: untracked files are not reported.
status_paths_tracked_only(db, hd, idx, t) ==
    SelectSeq(PathOrder,
              LAMBDA p : \/ HeadTree(db, hd)[p] # idx[p]
                         \/ (idx[p] # NONE /\ idx[p] # FilesOf(t)[p]))

\* Repository::statuses(None): one entry for every path that differs
\* between the head tree and the index or between the index and the working
\* tree, untracked files included, unmodified files left out.
status_paths(db, hd, idx, t) ==
    SelectSeq(PathOrder,
              LAMBDA p : \/ HeadTree(db, hd)[p] # idx[p]
                         \/ idx[p] # FilesOf(t)[p])

git_status ==
    /\ Return("status", Root, "",
              IF ~initialized THEN Err("Failed to open repository")
              ELSE Ok(status_paths(odb, head, index, fs)))
    /\ UNCHANGED <<fs, initialized, head, index, odb, made>>

\* git_diff: the head tree against the working tree, restricted to the
\* pathspec when one is given (<<>> stands for no filter). Untracked files
\* are not part of a tree-to-workdir diff by default. The statistics text is
\* represented by the set of files it counts as changed.
DiffInputs == {<<>>, F}
diff_stats(db, hd, t, filter) ==
    {p \in Paths : /\ HeadTree(db, hd)[p] # NONE
                   /\ HeadTree(db, hd)[p] # FilesOf(t)[p]
                   /\ (filter = <<>> \/ IsPrefix(filter, p))}

git_diff(filter) ==
    /\ Return("diffSummary", filter, "",
              IF ~initialized THEN Err("Failed to open repository")
              ELSE IF head = <<>> THEN Err("Failed to get HEAD")
              ELSE Ok(diff_stats(odb, head, fs, filter)))
    /\ UNCHANGED <<fs, initialized, head, index, odb, made>>

\* Mutation of restore_result: the destination is opened for writing
\* before the path is looked up in the commit.
restore_result_write_first(p, cid) ==
    IF ~initialized THEN Err("Failed to open repository")
    ELSE IF ~cid.hex THEN Err("Invalid commit ID")
    ELSE IF cid \notin DOMAIN odb THEN Err("Failed to find commit")
    ELSE IF ~CanWrite(fs, p) THEN Err("Failed to write file")
    ELSE IF get_path(odb[cid].tree, p) = NONE THEN Err("File not found in commit")
    ELSE IF get_path(odb[cid].tree, p) # "blob" THEN Err("Failed to find blob")
    ELSE Ok("")

\* restore_file_version: the result and the working tree afterwards.
restore_result(p, cid) ==
    IF ~initialized THEN Err("Failed to open repository")
    ELSE IF ~cid.hex THEN Err("Invalid commit ID")
    ELSE IF cid \notin DOMAIN odb THEN Err("Failed to find commit")
    ELSE IF get_path(odb[cid].tree, p) = NONE THEN Err("File not found in commit")
    ELSE IF get_path(odb[cid].tree, p) # "blob" THEN Err("Failed to find blob")
    ELSE IF ~CanWrite(fs, p) THEN Err("Failed to write file")
    ELSE Ok("")

\* Mutations of restore_file_version: the file is taken from the head
\* commit; the working file is copied into the commit; the restored file
\* is staged as well.
restore_head_version(p, cid) ==
    LET res == restore_result(p, cid)
    IN  /\ fs' = IF res.ok /\ odb[head[1]].tree[p] # NONE
                   THEN fs_write(fs, p, odb[head[1]].tree[p]) ELSE fs
        /\ Return("restoreFileVersion", p, cid, res)
        /\ UNCHANGED <<initialized, head, index, odb, made>>

restore_into_commit(p, cid) ==
    LET res == restore_result(p, cid)
    IN  /\ odb' = IF res.ok /\ IsFile(fs, p)
                    THEN [odb EXCEPT ![cid].tree[p] = fs[p]] ELSE odb
        /\ Return("restoreFileVersion", p, cid, res)
        /\ UNCHANGED <<fs, initialized, head, index, made>>

restore_and_stage(p, cid) ==
    LET res == restore_result(p, cid)
    IN  /\ fs' = IF res.ok THEN fs_write(fs, p, odb[cid].tree[p]) ELSE fs
        /\ index' = IF res.ok THEN [index EXCEPT ![p] = odb[cid].tree[p]] ELSE index
        /\ Return("restoreFileVersion", p, cid, res)
        /\ UNCHANGED <<initialized, head, odb, made>>

\* Mutation of restore_file_version: missing parent directories are
\* created before the write, as write_file_content does.
restore_creating_parents(p, cid) ==
    LET found == restore_result(p, cid)
        res == IF found.err = "Failed to write file" /\ CanCreateDirAll(fs, Parent(p))
                    /\ ~IsDir(fs, p)
                 THEN Ok("") ELSE found
    IN  /\ fs' = IF res.ok
                   THEN fs_write(create_dir_all(fs, Parent(p)), p, odb[cid].tree[p])
                   ELSE fs
        /\ Return("restoreFileVersion", p, cid, res)
        /\ UNCHANGED <<initialized, head, index, odb, made>>

restore_file_version(p, cid) ==
    LET res == restore_result(p, cid)
    IN  /\ fs' = IF res.ok THEN fs_write(fs, p, odb[cid].tree[p]) ELSE fs
        /\ Return("restoreFileVersion", p, cid, res)
        /\ UNCHANGED <<initialized, head, index, odb, made>>

\* ------------------------------------------------------------------------
\* The host issues one operation at a time.
\* ------------------------------------------------------------------------
Next ==
    \/ \E w \in WriteInputs : write_file_content(w[1], w[2])
    \/ \E p \in MkdirInputs : create_directory(p)
    \/ \E p \in Paths : delete_file(p)
    \/ \E p \in Paths : readFile(p)
    \/ \E p \in Paths : pathExists(p)
    \/ init_git_repo
    \/ \E m \in Messages, n \in Names, e \in Emails : git_commit(m, n, e)
    \/ \E k \in 0..MaxCount : git_log(k)
    \/ \E r \in RestoreInputs : restore_file_version(r[1], r[2])
    \/ \E p \in ListInputs : list_directory(p)
    \/ git_status
    \/ \E f \in DiffInputs : git_diff(f)

Spec == Init /\ [][Next]_vars

\* ------------------------------------------------------------------------
\* commitAll calls in flight together. git_commit takes no lock of its own:
\* each call opens its own repository handle and runs the steps below, and
\* the steps of two calls interleave unless the host serialises them.
\* ------------------------------------------------------------------------
InFlight(p) == pc[p] # "idle"
Quiet == \A p \in Procs : ~InFlight(p)
MayStart == serial => Quiet
ConcWrites == {<<F, "v1">>, <<F, "v2">>}

\* commit_open started while another call is in flight whatever the host does.
commit_open_unserialised(p) ==
    /\ pc[p] = "idle"
    /\ initialized
    /\ Cardinality(DOMAIN odb) < MaxCommits
    /\ pc' = [pc EXCEPT ![p] = "add"]
    /\ loc' = [loc EXCEPT ![p] =
                 [IdleLoc EXCEPT !.idx = index,
                                 !.foreign = \E q \in Procs \ {p} :
                                                pc[q] \in {"tree", "head", "commit"}]]
    /\ UNCHANGED <<fs, initialized, head, index, odb, ret, made, was, serial, health>>

\* Lines 21-26: Repository::open, Signature::now, repo.index(): the handle
\* loads the index that is on disk.
commit_open(p) ==
    /\ pc[p] = "idle"
    /\ MayStart
    /\ initialized
    /\ Cardinality(DOMAIN odb) < MaxCommits
    /\ pc' = [pc EXCEPT ![p] = "add"]
    /\ loc' = [loc EXCEPT ![p] =
                 [IdleLoc EXCEPT !.idx = index,
                                 !.foreign = \E q \in Procs \ {p} :
                                                pc[q] \in {"tree", "head", "commit"}]]
    /\ UNCHANGED <<fs, initialized, head, index, odb, ret, made, was, serial, health>>

\* Lines 29-30: index.add_all on the handle's index.
commit_add_all(p) ==
    /\ pc[p] = "add"
    /\ pc' = [pc EXCEPT ![p] = "write"]
    /\ loc' = [loc EXCEPT ![p].idx = add_all(loc[p].idx, fs), ![p].wt = FilesOf(fs)]
    /\ UNCHANGED <<fs, initialized, head, index, odb, ret, made, was, serial, health>>

\* Line 32: index.write replaces the index on disk.
commit_index_write(p) ==
    /\ pc[p] = "write"
    /\ pc' = [pc EXCEPT ![p] = "tree"]
    /\ index' = loc[p].idx
    /\ UNCHANGED <<fs, initialized, head, odb, ret, made, was, loc, serial, health>>

\* Lines 34-35: index.write_tree, repo.find_tree.
commit_write_tree(p) ==
    /\ pc[p] = "tree"
    /\ pc' = [pc EXCEPT ![p] = "head"]
    /\ loc' = [loc EXCEPT ![p].tree = write_tree(loc[p].idx)]
    /\ UNCHANGED <<fs, initialized, head, index, odb, ret, made, was, serial, health>>

\* Lines 37-45: repo.head() and the parents vector.
commit_read_head(p) ==
    /\ pc[p] = "head"
    /\ pc' = [pc EXCEPT ![p] = "commit"]
    /\ loc' = [loc EXCEPT ![p].parents = head]
    /\ UNCHANGED <<fs, initialized, head, index, odb, ret, made, was, serial, health>>

\* Lines 47-56: repo.commit(Some("HEAD"), ...). The library refuses to move
\* a reference whose current tip is not the first parent given.
commit_create(p) ==
    /\ pc[p] = "commit"
    /\ pc' = [pc EXCEPT ![p] = "idle"]
    /\ loc' = [loc EXCEPT ![p] = IdleLoc]
    /\ was' = fs
    /\ IF head # loc[p].parents
         THEN /\ ret' = [op |-> "commitAll", path |-> Root,
                         arg |-> <<ProcMessage[p], "ann", "a@x">>,
                         res |-> Err("Failed to create commit")]
              /\ UNCHANGED <<head, odb, made>>
         ELSE LET obj == NewCommit(loc[p].tree, loc[p].parents, ProcMessage[p], "ann")
                  oid == OidOf(obj)
              IN  /\ Cardinality(DOMAIN odb) < MaxCommits
                  /\ odb' = (oid :> obj) @@ odb
                  /\ head' = <<oid>>
                  /\ made' = Append(made, [oid |-> oid, obj |-> obj, wt |-> loc[p].wt,
                                            prev |-> loc[p].parents, idx |-> index])
                  /\ ret' = [op |-> "commitAll", path |-> Root,
                             arg |-> <<ProcMessage[p], "ann", "a@x">>, res |-> Ok(oid)]
    /\ UNCHANGED <<fs, initialized, index, serial, health>>

conc_init == MayStart /\ init_git_repo
conc_write == MayStart /\ \E w \in ConcWrites : write_file_content(w[1], w[2])

NextConc ==
    \/ conc_init
    \/ conc_write
    \/ \E p \in Procs : commit_open(p)
    \/ \E p \in Procs : commit_add_all(p)
    \/ \E p \in Procs : commit_index_write(p)
    \/ \E p \in Procs : commit_write_tree(p)
    \/ \E p \in Procs : commit_read_head(p)
    \/ \E p \in Procs : commit_create(p)

InitConc ==
    /\ InitStore
    /\ serial \in BOOLEAN
    /\ health = HealthIdle

SpecConc == InitConc /\ [][NextConc]_vars

\* ------------------------------------------------------------------------
\* wait_for_backend_health(max_attempts, initial_delay_ms), main.rs:27-52.
\* health.conn records the outcome of every connection attempt and
\* health.slept every delay handed to thread::sleep, in order. Delays are
\* u64 in the source; the inputs drawn here stay far below 2^63, where
\* delay * 2 does not wrap.
\* ------------------------------------------------------------------------
MaxDelayMs == 5000
StartupAttempts == 10
StartupDelayMs == 500
InitialDelays == {0, 1, StartupDelayMs, 3000, MaxDelayMs, 6000}

BackoffDelay_uncapped(delay) == delay * 2

\* Line 43: delay = min(delay * 2, 5000).
BackoffDelay(delay) == Min(delay * 2, MaxDelayMs)

\* Lines 27-30: let mut delay = initial_delay_ms; the loop starts at attempt 1.
HealthStart(m, d) ==
    [pc |-> "connect", max |-> m, init |-> d, delay |-> d, attempt |-> 1,
     conn |-> <<>>, slept |-> <<>>, result |-> FALSE]

HealthRest == UNCHANGED <<fs, initialized, head, index, odb, ret, made, was, pc, loc, serial>>

\* Lines 33-37: the connection succeeds, return true.
health_connect_ok ==
    /\ health.pc = "connect"
    /\ health.attempt <= health.max
    /\ health' = [health EXCEPT !.pc = "done", !.result = TRUE,
                                !.conn = Append(@, TRUE)]
    /\ HealthRest

\* Lines 38-46: the connection fails; before the last attempt the function
\* goes to sleep, at the last attempt it reports and the loop ends (line 51).
health_connect_fail ==
    /\ health.pc = "connect"
    /\ health.attempt <= health.max
    /\ health' = IF health.attempt < health.max
                   THEN [health EXCEPT !.pc = "sleep", !.conn = Append(@, FALSE)]
                   ELSE [health EXCEPT !.pc = "done", !.result = FALSE,
                                       !.conn = Append(@, FALSE)]
    /\ HealthRest

\* Lines 41-43: thread::sleep(delay), then the next delay and the next attempt.
health_sleep ==
    /\ health.pc = "sleep"
    /\ health' = [health EXCEPT !.pc = "connect",
                                !.slept = Append(@, health.delay),
                                !.delay = BackoffDelay(health.delay),
                                !.attempt = @ + 1]
    /\ HealthRest

\* Lines 30, 51: the range 1..=max_attempts is empty, return false.
health_no_attempt ==
    /\ health.pc = "connect"
    /\ health.attempt > health.max
    /\ health' = [health EXCEPT !.pc = "done", !.result = FALSE]
    /\ HealthRest

NextHealth ==
    \/ health_connect_ok
    \/ health_connect_fail
    \/ health_sleep
    \/ health_no_attempt

InitHealth ==
    /\ InitStore
    /\ serial = TRUE
    /\ health \in {HealthStart(m, d) : m \in 0..StartupAttempts, d \in InitialDelays}

SpecHealth == InitHealth /\ [][NextHealth]_vars

\* ------------------------------------------------------------------------
\* Properties
\* ------------------------------------------------------------------------
RestoreOk == ret.op = "restoreFileVersion" /\ ret.res.ok
CommitOk == ret.op = "commitAll" /\ ret.res.ok
Last(seq) == seq[Len(seq)]
MadeIds == {made[i].oid : i \in DOMAIN made}

\* C1: Restore correctness. After a successful restoreFileVersion(root, f, C),
\* readFile(f) yields exactly the content f had in the working tree when
\* commitAll returned C, whatever the head commit holds for f.
RestoreCorrectness ==
    RestoreOk =>
        \A i \in DOMAIN made :
            made[i].oid = ret.arg =>
                /\ made[i].wt[ret.path] \in Contents
                /\ read_file_content(fs, ret.path) = Ok(made[i].wt[ret.path])

\* C1 witness: f written as v1 and committed as C1, overwritten with v2 and
\* committed as C2, then restored from C1: the file reads v1 again.
RestoreCorrectnessWitness ==
    /\ RestoreOk
    /\ ret.path = F
    /\ Len(made) = 2
    /\ ret.arg = made[1].oid
    /\ made[1].wt[F] = "v1"
    /\ made[2].wt[F] = "v2"
    /\ head = <<made[2].oid>>
    /\ read_file_content(fs, F) = Ok("v1")

\* C2: Commit chaining. After n >= 1 successful commitAll calls, log(root, k)
\* returns min(k, n) records, the i-th being the (n-i+1)-th commit made,
\* with pairwise distinct ids.
CommitChaining ==
    (ret.op = "log" /\ Len(made) >= 1) =>
        LET n == Len(made)
            k == ret.arg
            recs == ret.res.val
        IN  /\ ret.res.ok
            /\ Len(recs) = Min(k, n)
            /\ \A i \in DOMAIN recs :
                /\ recs[i].id = made[n - i + 1].oid
                /\ recs[i].message = made[n - i + 1].obj.message
                /\ recs[i].author = made[n - i + 1].obj.author
            /\ \A i, j \in DOMAIN recs : i # j => recs[i].id # recs[j].id

\* C2 witness: log(root, 2) after two commits returns two records, newest
\* first.
CommitChainingWitness ==
    /\ ret.op = "log"
    /\ ret.arg = 2
    /\ Len(made) = 2
    /\ ret.res.ok
    /\ Len(ret.res.val) = 2
    /\ ret.res.val[1].id = made[2].oid
    /\ ret.res.val[2].id = made[1].oid

\* C3: A successful commitAll creates a commit whose only parent is the
\* commit that was head before the call, or no parent when there was none;
\* head then names the new commit and the returned id is its id.
CommitParentIsOldHead ==
    [][(ret'.op = "commitAll" /\ ret'.res.ok) =>
        LET oid == ret'.res.val
        IN  /\ oid \notin DOMAIN odb
            /\ DOMAIN odb' = DOMAIN odb \cup {oid}
            /\ odb'[oid].parents = head
            /\ Len(odb'[oid].parents) <= 1
            /\ head' = <<oid>>
            /\ oid = OidOf(odb'[oid])]_vars

\* C3 witness: a second commit, whose parent is the first.
CommitParentIsOldHeadWitness ==
    /\ CommitOk
    /\ Len(made) = 2
    /\ head = <<ret.res.val>>
    /\ odb[ret.res.val].parents = <<made[1].oid>>
    /\ odb[made[1].oid].parents = <<>>

LogUnchanged ==
    \A k \in 0..MaxCount :
        LET before == git_log_result(initialized, odb, head, k)
            after == git_log_result(initialized', odb', head', k)
        IN  /\ before.ok = after.ok
            /\ before.err = after.err
            /\ before.ok => before.val = after.val

\* C5: Commit immutability. No operation changes or removes a commit that
\* exists: its message, author, parent and the content of every path of its
\* tree stay the same, and every id commitAll returned still names the
\* commit object it stored.
CommitImmutability ==
    [][/\ \A c \in DOMAIN odb : c \in DOMAIN odb' /\ odb'[c] = odb[c]
       /\ \A i \in DOMAIN made' :
            made'[i].oid \in DOMAIN odb' /\ odb'[made'[i].oid] = made'[i].obj]_vars

\* C5 witness: the first commit is an ancestor of head, its file has since
\* been overwritten, committed again and restored, and it is as it was made.
CommitImmutabilityWitness ==
    /\ RestoreOk
    /\ Len(made) = 2
    /\ ret.arg = made[1].oid
    /\ made[1].wt # made[2].wt
    /\ odb[made[1].oid] = made[1].obj
    /\ odb[made[1].oid].tree = made[1].wt

\* C6: restoreFileVersion is purely a working-tree write. A successful call
\* writes root/filePath with the content in the commit and changes no other
\* working-tree file, nor the head reference, the index or the commits; log
\* returns the same records before and after.
RestoreOnlyWritesWorkingFile ==
    [][(ret'.op = "restoreFileVersion" /\ ret'.res.ok) =>
        /\ fs'[ret'.path] = odb[ret'.arg].tree[ret'.path]
        /\ \A q \in Paths \ {ret'.path} : fs'[q] = fs[q]
        /\ head' = head
        /\ index' = index
        /\ odb' = odb
        /\ initialized' = initialized
        /\ LogUnchanged]_vars

\* C6 witness: a restore that changed the file away from what the index and
\* the head commit hold for it.
RestoreOnlyWritesWorkingFileWitness ==
    /\ RestoreOk
    /\ head # <<>>
    /\ fs[ret.path] # odb[head[1]].tree[ret.path]
    /\ fs[ret.path] # index[ret.path]
    /\ fs[ret.path] = odb[ret.arg].tree[ret.path]

\* C7: NotFound propagation. restoreFileVersion(root, p, C) for an existing
\* commit C whose tree has no entry at p fails with "File not found in
\* commit", not with the error of the file write, and leaves the working
\* tree unchanged.
RestoreMissingPathNotFound ==
    [][(/\ ret'.op = "restoreFileVersion"
        /\ ret'.arg \in DOMAIN odb
        /\ get_path(odb[ret'.arg].tree, ret'.path) = NONE) =>
            /\ ~ret'.res.ok
            /\ ret'.res.err = "File not found in commit"
            /\ ret'.res.err # "Failed to write file"
            /\ fs' = fs]_vars

\* C7 witness: the path is absent from the commit, a file exists at it in
\* the working tree, and the call failed with the lookup's error.
RestoreMissingPathNotFoundWitness ==
    /\ ret.op = "restoreFileVersion"
    /\ ret.arg \in DOMAIN odb
    /\ get_path(odb[ret.arg].tree, ret.path) = NONE
    /\ IsFile(fs, ret.path)
    /\ ret.res = Err("File not found in commit")

\* C8 as stated: log(root, N) on an initialized repository with zero commits
\* returns an empty sequence and not an error.
LogOnEmptyRepositoryIsEmpty ==
    (ret.op = "log" /\ initialized /\ head = <<>>) =>
        (ret.res.ok /\ ret.res.val = <<>>)

\* C8 amended: log(root, N) on an initialized repository with zero commits
\* fails with the error of the head lookup ("Failed to push head"), for
\* every N, and returns no records.
LogOnEmptyRepositoryFails ==
    (ret.op = "log" /\ initialized /\ head = <<>>) =>
        (~ret.res.ok /\ ret.res.err = "Failed to push head")

\* C8 witness: log was called on an initialized repository without commits.
LogOnEmptyRepositoryWitness ==
    /\ ret.op = "log"
    /\ initialized
    /\ head = <<>>
    /\ odb = <<>>
    /\ ret.res = Err("Failed to push head")

\* C9: commitAll fails when the root has no repository metadata or when the
\* author name or email is empty; no commit is created and the head
\* reference and the index are unchanged.
CommitFailsWithoutRepoOrIdentity ==
    [][(/\ ret'.op = "commitAll"
        /\ (~initialized \/ ret'.arg[2] = "" \/ ret'.arg[3] = "")) =>
            /\ ~ret'.res.ok
            /\ ret'.res.err = IF ~initialized THEN "Failed to open repository"
                                             ELSE "Failed to create signature"
            /\ odb' = odb
            /\ head' = head
            /\ index' = index
            /\ initialized' = initialized]_vars

\* C9 witness: a commit with an empty name or email was refused while the
\* working tree held changes that were not staged.
CommitFailsWithoutRepoOrIdentityWitness ==
    /\ ret.op = "commitAll"
    /\ initialized
    /\ ret.arg[2] = "" \/ ret.arg[3] = ""
    /\ ret.res = Err("Failed to create signature")
    /\ index # FilesOf(fs)

\* C10: initRepository on an initialized root succeeds and leaves the head
\* reference, every commit and the working tree unchanged; log returns the
\* same result before and after.
InitIdempotent ==
    [][(ret'.op = "initRepository" /\ initialized) =>
        /\ ret'.res.ok
        /\ initialized'
        /\ head' = head
        /\ odb' = odb
        /\ index' = index
        /\ fs' = fs
        /\ LogUnchanged]_vars

\* C10 witness: initRepository was called on a repository that has commits
\* and files.
InitIdempotentWitness ==
    /\ ret.op = "initRepository"
    /\ ret.res.ok
    /\ head # <<>>
    /\ Len(made) = 2
    /\ head = <<made[2].oid>>
    /\ IsFile(fs, F)

Range(seq) == {seq[i] : i \in DOMAIN seq}
LastCommitted == IF made = <<>> THEN EmptyTree ELSE Last(made).wt

WriteReadRoundTrip ==
    ret.op = "writeFile" =>
        /\ ((\A q \in Ancestors(ret.path) : ~IsFile(was, q)) /\ ~IsDir(was, ret.path))
              => ret.res.ok
        /\ ret.res.ok =>
              /\ read_file_content(fs, ret.path) = Ok(ret.arg)
              /\ \A q \in Ancestors(ret.path) : IsDir(fs, q)

\* C12 witness: the parent directory did not exist before the write.
WriteReadRoundTripWitness ==
    /\ ret.op = "writeFile"
    /\ ret.res.ok
    /\ ret.path = G
    /\ was[D] = NONE
    /\ IsDir(fs, D)
    /\ read_file_content(fs, G) = Ok(ret.arg)

\* C13: Recursive deletion. After a successful deleteFile(p) of a directory,
\* pathExists is false for p and for every path that was nested under it,
\* and every other path keeps its existence and content.
RecursiveDeletion ==
    (ret.op = "deleteFile" /\ ret.res.ok /\ IsDir(was, ret.path)) =>
        /\ \A q \in Paths : IsPrefix(ret.path, q) => ~file_exists(fs, q)
        /\ \A q \in Paths : ~IsPrefix(ret.path, q) => fs[q] = was[q]

\* C13 witness: the deleted directory held a file, and a file outside it
\* is still there.
RecursiveDeletionWitness ==
    /\ ret.op = "deleteFile"
    /\ ret.res.ok
    /\ ret.path = D
    /\ IsDir(was, D)
    /\ IsFile(was, G)
    /\ ~file_exists(fs, D)
    /\ ~file_exists(fs, G)
    /\ IsFile(fs, F)

\* C14: listDirectory(p) on an existing directory returns one entry for each
\* immediate child of p and nothing else; no entry is p itself or lies
\* deeper; directories have is_directory and no size, files their size.
ListingIsImmediateChildren ==
    (ret.op = "listDirectory" /\ IsDir(fs, ret.path)) =>
        LET children == {q \in Paths : Parent(q) = ret.path /\ Exists(fs, q)}
        IN  /\ ret.res.ok
            /\ {e.path : e \in ret.res.val} = children
            /\ Cardinality(ret.res.val) = Cardinality(children)
            /\ \A e \in ret.res.val :
                /\ e.path # ret.path
                /\ Len(e.path) = Len(ret.path) + 1
                /\ e.name = e.path[Len(e.path)]
                /\ IsDir(fs, e.path) => (e.is_directory /\ e.size = <<>>)
                /\ IsFile(fs, e.path) =>
                      (~e.is_directory /\ e.size = <<Len(fs[e.path])>>)

\* C14 witness: the root holds a file and a directory with a file in it;
\* the listing of the root has the two children only.
ListingIsImmediateChildrenWitness ==
    /\ ret.op = "listDirectory"
    /\ ret.path = Root
    /\ IsFile(fs, F)
    /\ IsFile(fs, G)
    /\ {e.path : e \in ret.res.val} = {F, D}

\* C15: restoreFileVersion does not create missing directories. When the
\* commit holds filePath as a file but the parent directory of filePath is
\* missing from the working tree, the call fails with the error of the
\* write and the working tree is unchanged.
RestoreNeedsParentDirectory ==
    (/\ ret.op = "restoreFileVersion"
     /\ ret.arg \in DOMAIN odb
     /\ get_path(odb[ret.arg].tree, ret.path) = "blob"
     /\ ~IsDir(was, Parent(ret.path))) =>
        /\ ret.res = Err("Failed to write file")
        /\ fs = was

\* C15 witness: d/g is in the commit, d was deleted afterwards, and the
\* restore of d/g failed leaving d absent.
RestoreNeedsParentDirectoryWitness ==
    /\ ret.op = "restoreFileVersion"
    /\ ret.path = G
    /\ ret.arg \in DOMAIN odb
    /\ odb[ret.arg].tree[G] = "v1"
    /\ ~file_exists(fs, D)
    /\ ret.res = Err("Failed to write file")

\* The history is one chain: at most one parent per commit, and the walk
\* from head meets exactly the commits created, newest first.
LinearHistory ==
    LET walk == revwalk(odb, head)
    IN  /\ \A c \in DOMAIN odb : Len(odb[c].parents) <= 1
        /\ Len(walk) = Len(made)
        /\ \A i \in DOMAIN walk : walk[i] = made[Len(made) - i + 1].oid
        /\ DOMAIN odb = Range(walk)

\* C17: Linear history. With one operation at a time, after every operation
\* every commit has at most one parent and every commit commitAll created is
\* reachable from head; the number of commits reachable from head grows by
\* exactly one in a successful commitAll and stays the same in every other
\* operation.
LinearHistoryStep ==
    [][/\ LinearHistory'
       /\ Len(revwalk(odb', head')) =
            Len(revwalk(odb, head))
              + (IF ret'.op = "commitAll" /\ ret'.res.ok THEN 1 ELSE 0)]_vars

\* C17 witness: two commits are reachable from head after a later
\* diffSummary.
LinearHistoryWitness ==
    /\ ret.op = "diffSummary"
    /\ ret.res.ok
    /\ Len(revwalk(odb, head)) = 2
    /\ Len(made) = 2
    /\ fs[F] # Last(made).wt[F]

\* C18: commitAll never skips a commit for lack of changes. Called with a
\* valid identity on a repository whose working tree equals the tree of the
\* head commit, it succeeds, creates a new commit with that tree and head as
\* parent and advances head, so that the history grows by one.
CommitWithoutChanges ==
    [][(/\ ret'.op = "commitAll"
        /\ initialized
        /\ head # <<>>
        /\ FilesOf(fs) = HeadTree(odb, head)
        /\ SignatureOk(ret'.arg[2], ret'.arg[3])) =>
            /\ ret'.res.ok
            /\ ret'.res.val \notin DOMAIN odb
            /\ ret'.res.val \in DOMAIN odb'
            /\ odb'[ret'.res.val].tree = HeadTree(odb, head)
            /\ odb'[ret'.res.val].parents = head
            /\ head' = <<ret'.res.val>>
            /\ Len(revwalk(odb', head')) = Len(revwalk(odb, head)) + 1]_vars

\* C18 witness: the second commit was taken of the working tree of the
\* first.
CommitWithoutChangesWitness ==
    /\ CommitOk
    /\ Len(made) = 2
    /\ made[2].wt = made[1].wt
    /\ made[2].idx = made[1].wt
    /\ head = <<made[2].oid>>
    /\ made[2].oid # made[1].oid
    /\ odb[made[2].oid].tree = odb[made[1].oid].tree

\* C19: listDirectory(p) on a path that does not exist returns an error
\* rather than a success value with an empty sequence.
ListMissingPathFails ==
    (ret.op = "listDirectory" /\ ~file_exists(fs, ret.path)) => ~ret.res.ok

\* Two calls hold the same head as parent, or a call builds its tree from an
\* index that another call still in flight has written.
SameParentRead ==
    \E p \in Procs : \E q \in Procs \ {p} :
        pc[p] = "commit" /\ pc[q] = "commit" /\ loc[p].parents = loc[q].parents
ForeignIndex == \E p \in Procs : pc[p] \in {"tree", "head", "commit"} /\ loc[p].foreign
RaceState == SameParentRead \/ ForeignIndex

\* C16: git_commit serialises nothing itself. With at most one operation in
\* flight per root, no state is reachable in which two commitAll calls read
\* the same head as parent or in which a call's tree comes from an index the
\* other call modified; the history stays one chain and no commitAll loses
\* the race for head. Without that discipline the steps of two calls
\* interleave and such a state is reachable (ConcurrentCommitRace).
SerialCommitsDoNotRace ==
    serial =>
        /\ ~RaceState
        /\ LinearHistory
        /\ ~(ret.op = "commitAll" /\ ret.res.err = "Failed to create commit")

\* Two calls run together: both are about to create a commit on the same
\* parent, and the second staged on top of the index the first one wrote.
ConcurrentCommitRace ==
    /\ ~serial
    /\ pc[1] = "commit" /\ pc[2] = "commit"
    /\ loc[1].parents = loc[2].parents
    /\ loc[2].foreign

\* The parts of the backoff that do not depend on the first delay: the first
\* sleep is initial_delay_ms, each later sleep is the smaller of twice the
\* one before and 5000 ms, a sleep only happens between two attempts, and
\* the result is true exactly at the first successful connection and false
\* after max_attempts failures.
BackoffShape ==
    LET h == health
        n == Len(h.conn)
    IN  /\ Len(h.slept) >= 1 => h.slept[1] = h.init
        /\ \A i \in 1..(Len(h.slept) - 1) :
              h.slept[i + 1] = Min(2 * h.slept[i], MaxDelayMs)
        /\ \A i \in 1..(n - 1) : h.conn[i] = FALSE
        /\ n <= h.max
        /\ h.pc = "connect" => Len(h.slept) = n
        /\ h.pc = "sleep" => Len(h.slept) = n - 1 /\ n < h.max
        /\ h.pc = "done" =>
              /\ Len(h.slept) = (IF n = 0 THEN 0 ELSE n - 1)
              /\ h.result = (n >= 1 /\ h.conn[n])
              /\ ~h.result => n = h.max

====
